---- MODULE Spec2Model ----
(***************************************************************************)
(* Kodi2Plex (src/kodi2plex.py): title normalisation, fuzzy best-match     *)
(* selection and the collection / playlist reconciliation passes.          *)
(*                                                                         *)
(* Strings are sequences of one-character strings.  Three specifications   *)
(* share this module:                                                      *)
(*   SpecNorm  - normalize_title applied once and twice to drawn titles    *)
(*   SpecMatch - find_best_match applied to drawn titles, pools, thresholds*)
(*   Spec      - the program run: match, sync passes, summary / error exit *)
(***************************************************************************)
EXTENDS Integers, Sequences, FiniteSets, TLC

VARIABLES
    \* ---- SpecNorm ----
    ntitle,       \* the title handed to normalize_title
    npieces,      \* how many pieces the drawn title is made of
    nphase,       \* "build" | "once" | "twice"
    nonce,        \* normalize_title(ntitle)
    ntwice,       \* normalize_title(nonce)
    \* ---- SpecMatch ----
    mtitle,       \* playlist_title handed to find_best_match
    mshows,       \* plex_shows: the candidate pool, in pool order
    mthreshold,   \* threshold
    mphase,       \* "build" | "done"
    mbest,        \* best_score, best_ratio, best_show when the scan ends
    mresult,      \* the MatchResult returned
    \* ---- Spec: the Plex server ----
    coll,         \* per library: the members of the target collection
    plist,        \* the target playlist: whether it exists, and its items
    \* ---- Spec: the program ----
    playlist_titles, \* playlist.titles, as parsed from the .xsp file
    pc,           \* where the run is
    dry_run,      \* config.dry_run
    sync_modes,   \* config.sync_modes
    ti,           \* position of the matching loop in sorted(playlist.titles)
    matched_shows,\* sync: the MatchResults with matched = TRUE
    stats,        \* SyncStats
    mi,           \* position of the loop over config.sync_modes
    current_shows,\* the live snapshot read by the pass
    to_add,       \* MatchResults to add
    to_remove,    \* live shows to remove
    added,        \* titles added (returned)
    removed,      \* titles removed (returned)
    already,      \* MatchResults already in sync (their titles are returned)
    idx,          \* position of the add / remove loop
    report,       \* what the run finally printed: the summary or an error
    \* ---- Spec: history, read by the properties only ----
    remote_before,\* coll and plist when the pass began
    read_failed,  \* libraries whose snapshot read raised in this pass
    created,      \* whether the pass found no playlist (creation branch)
    applied,      \* the mutating calls of this pass that succeeded
    failed,       \* the call that raised in this run, if any
    prev          \* per mode: how the last non-dry-run pass ended

normVars == <<ntitle, npieces, nphase, nonce, ntwice>>

matchVars == <<mtitle, mshows, mthreshold, mphase, mbest, mresult>>

remoteVars == <<coll, plist>>

runVars == <<playlist_titles, pc, dry_run, sync_modes, ti, matched_shows,
             stats, mi, report>>

passVars == <<current_shows, to_add, to_remove, added, removed, already, idx>>

histVars == <<remote_before, read_failed, created, applied, failed, prev>>

syncVars == <<remoteVars, runVars, passVars, histVars>>

(***************************************************************************)
(* Characters                                                              *)
(***************************************************************************)

\* The characters of the model in code-point order (Python compares strings
\* by code point: sorted() at line 465 and the token sort of thefuzz).
AlphabetSeq ==
    << " ", "!", "&", "(", ")", "0", "1", "2", "3", "4", "5", "6", "7", "8",
       "9", ":", ";", "A", "T", "a", "b", "c", "d", "e", "f", "g", "h", "i",
       "j", "k", "l", "m", "n", "o", "p", "q", "r", "s", "t", "u", "v", "w",
       "x", "y", "z" >>

Ord(c) == CHOOSE i \in 1..Len(AlphabetSeq) : AlphabetSeq[i] = c

Digits == {"0", "1", "2", "3", "4", "5", "6", "7", "8", "9"}

LowerLetters ==
    {"a", "b", "c", "d", "e", "f", "g", "h", "i", "j", "k", "l", "m", "n",
     "o", "p", "q", "r", "s", "t", "u", "v", "w", "x", "y", "z"}

\* \s of the regular expressions
IsSpace(c) == c = " "

\* \w of the regular expressions (letters and digits of the alphabet)
IsWord(c) == c \in LowerLetters \cup Digits \cup {"A", "T"}

\* str.lower() on one character
LowerChar(c) == IF c = "A" THEN "a" ELSE IF c = "T" THEN "t" ELSE c

(***************************************************************************)
(* String helpers                                                          *)
(***************************************************************************)

Drop(s, n) == IF n >= Len(s) THEN << >> ELSE SubSeq(s, n + 1, Len(s))

Take(s, n) == IF n >= Len(s) THEN s ELSE SubSeq(s, 1, n)

StartsWith(s, p) == Len(p) <= Len(s) /\ SubSeq(s, 1, Len(p)) = p

EndsWith(s, p) ==
    Len(p) <= Len(s) /\ SubSeq(s, Len(s) - Len(p) + 1, Len(s)) = p

\* str.lower()
Lower(s) == [i \in 1..Len(s) |-> LowerChar(s[i])]

RECURSIVE LStrip(_)
LStrip(s) ==
    IF s = << >> THEN << >>
    ELSE IF IsSpace(s[1]) THEN LStrip(Tail(s)) ELSE s

RECURSIVE RStrip(_)
RStrip(s) ==
    IF s = << >> THEN << >>
    ELSE IF IsSpace(s[Len(s)]) THEN RStrip(SubSeq(s, 1, Len(s) - 1)) ELSE s

\* str.strip()
Strip(s) == RStrip(LStrip(s))

\* str.replace(pat, rep): left to right, non-overlapping
RECURSIVE Replace(_, _, _)
Replace(s, pat, rep) ==
    IF s = << >> THEN << >>
    ELSE IF StartsWith(s, pat) THEN rep \o Replace(Drop(s, Len(pat)), pat, rep)
    ELSE <<s[1]>> \o Replace(Tail(s), pat, rep)

(***************************************************************************)
(* normalize_title                                                         *)
(***************************************************************************)

Articles == << <<"t", "h", "e">>, <<"a">>, <<"a", "n">> >>

\* re.sub(r"^(the|a|an)\s+", "", t): the alternatives are tried in order; an
\* alternative matches when it is followed by at least one whitespace
\* character, and the match takes the whole whitespace run.
RECURSIVE StripArticleFrom(_, _)
StripArticleFrom(t, k) ==
    IF k > Len(Articles) THEN t
    ELSE LET art == Articles[k]
         IN  IF StartsWith(t, art) /\ Len(t) > Len(art)
                  /\ IsSpace(t[Len(art) + 1])
             THEN LStrip(Drop(t, Len(art)))
             ELSE StripArticleFrom(t, k + 1)

StripArticle(t) == StripArticleFrom(t, 1)

IsYear(s) ==
    /\ Len(s) = 6
    /\ s[1] = "("
    /\ \A i \in 2..5 : s[i] \in Digits
    /\ s[6] = ")"

\* re.sub(r"\s*\(\d{4}\)\s*$", "", t): a parenthesised 4-digit year at the
\* end (trailing whitespace allowed) goes, with the whitespace before it.
StripYear(t) ==
    LET r == RStrip(t)
    IN  IF Len(r) >= 6 /\ IsYear(SubSeq(r, Len(r) - 5, Len(r)))
        THEN RStrip(SubSeq(r, 1, Len(r) - 6))
        ELSE t

\* re.sub(r"[^\w\s]", "", t)
KeepChar(c) == IsWord(c) \/ IsSpace(c)

RemovePunct(t) == SelectSeq(t, KeepChar)

\* re.sub(r"\s+", " ", t)
RECURSIVE CollapseSpaces(_)
CollapseSpaces(t) ==
    IF t = << >> THEN << >>
    ELSE IF IsSpace(t[1]) THEN <<" ">> \o CollapseSpaces(LStrip(t))
    ELSE <<t[1]>> \o CollapseSpaces(Tail(t))

AmpEntity == <<"&", "a", "m", "p", ";">>

AndWord == <<"a", "n", "d">>

normalize_title(title) ==
    LET t1 == Strip(Lower(title))
        t2 == Replace(Replace(t1, AmpEntity, AndWord), <<"&">>, AndWord)
        t3 == StripArticle(t2)
        t4 == StripYear(t3)
        t5 == RemovePunct(t4)
        t6 == Strip(CollapseSpaces(t5))
    IN  t6

(***************************************************************************)
(* SpecNorm: titles are drawn as concatenations of pieces                  *)
(***************************************************************************)

MaxPieces == 4

TitlePieces ==
    { <<"t", "h", "e">>, <<"a">>, <<"n">>, <<" ">>, <<"x">>, <<"!">>,
      <<"&">>, <<"T">>, <<"(", "2", "0", "1", "4", ")">>,
      <<"&", "a", "m", "p", ";">> }

NormInit ==
    /\ ntitle = << >>
    /\ npieces = 0
    /\ nphase = "build"
    /\ nonce = << >>
    /\ ntwice = << >>

\* the caller supplies one more piece of the title
AppendPiece ==
    /\ nphase = "build"
    /\ npieces < MaxPieces
    /\ \E p \in TitlePieces : ntitle' = ntitle \o p
    /\ npieces' = npieces + 1
    /\ UNCHANGED <<nphase, nonce, ntwice>>
    /\ UNCHANGED <<matchVars, syncVars>>

NormalizeOnce ==
    /\ nphase = "build"
    /\ nonce' = normalize_title(ntitle)
    /\ nphase' = "once"
    /\ UNCHANGED <<ntitle, npieces, ntwice>>
    /\ UNCHANGED <<matchVars, syncVars>>

NormalizeTwice ==
    /\ nphase = "once"
    /\ ntwice' = normalize_title(nonce)
    /\ nphase' = "twice"
    /\ UNCHANGED <<ntitle, npieces, nonce>>
    /\ UNCHANGED <<matchVars, syncVars>>

NormNext == AppendPiece \/ NormalizeOnce \/ NormalizeTwice

(***************************************************************************)
(* thefuzz: ratio, token_sort_ratio, partial_ratio (called at 224-232)     *)
(***************************************************************************)

Max2(a, b) == IF a >= b THEN a ELSE b

Min2(a, b) == IF a <= b THEN a ELSE b

\* One row of the longest-common-subsequence table: cur[j+1] for j = 0..Len(b)
RECURSIVE LcsRow(_, _, _, _)
LcsRow(above, c, b, cur) ==
    LET j == Len(cur)
    IN  IF j > Len(b) THEN cur
        ELSE LcsRow(above, c, b,
                    Append(cur, IF c = b[j] THEN above[j] + 1
                                ELSE Max2(above[j + 1], cur[j])))

RECURSIVE LcsRows(_, _, _)
LcsRows(a, b, above) ==
    IF a = << >> THEN above
    ELSE LcsRows(Tail(a), b, LcsRow(above, a[1], b, <<0>>))

LcsLen(a, b) == LcsRows(a, b, [j \in 1..Len(b) + 1 |-> 0])[Len(b) + 1]

\* int(round(x)) for x = num / den: Python rounds halves to the even integer
RoundHalfEven(num, den) ==
    LET q == num \div den
        r == num % den
    IN  IF 2 * r < den THEN q
        ELSE IF 2 * r > den THEN q + 1
        ELSE IF q % 2 = 0 THEN q ELSE q + 1

\* fuzz.ratio: 100 * (1 - indel_distance / (len1 + len2)), rounded; two
\* empty strings are equal and score 100.
fuzz_ratio(a, b) ==
    IF Len(a) + Len(b) = 0 THEN 100
    ELSE RoundHalfEven(200 * LcsLen(a, b), Len(a) + Len(b))

\* utils.full_process: non-alphanumerics become spaces, lowercase, strip
ProcessChar(c) == IF IsWord(c) THEN LowerChar(c) ELSE " "

full_process(s) == Strip([i \in 1..Len(s) |-> ProcessChar(s[i])])

\* str.split(): the whitespace-delimited tokens
RECURSIVE SplitTokens(_, _, _)
SplitTokens(s, cur, acc) ==
    IF s = << >> THEN (IF cur = << >> THEN acc ELSE Append(acc, cur))
    ELSE IF IsSpace(s[1])
         THEN SplitTokens(Tail(s), << >>,
                          IF cur = << >> THEN acc ELSE Append(acc, cur))
         ELSE SplitTokens(Tail(s), Append(cur, s[1]), acc)

\* a < b for strings, by code point
RECURSIVE StrLess(_, _)
StrLess(a, b) ==
    IF b = << >> THEN FALSE
    ELSE IF a = << >> THEN TRUE
    ELSE IF a[1] = b[1] THEN StrLess(Tail(a), Tail(b))
    ELSE Ord(a[1]) < Ord(b[1])

\* insert x into the sorted sequence s, after the elements equal to it
RECURSIVE InsertSorted(_, _)
InsertSorted(s, x) ==
    IF s = << >> THEN <<x>>
    ELSE IF StrLess(x, s[1]) THEN <<x>> \o s
    ELSE <<s[1]>> \o InsertSorted(Tail(s), x)

\* sorted(): a stable ascending sort of strings
RECURSIVE SortedStrings(_)
SortedStrings(s) ==
    IF s = << >> THEN << >>
    ELSE InsertSorted(SortedStrings(SubSeq(s, 1, Len(s) - 1)), s[Len(s)])

RECURSIVE JoinSpace(_)
JoinSpace(toks) ==
    IF toks = << >> THEN << >>
    ELSE IF Len(toks) = 1 THEN toks[1]
    ELSE toks[1] \o <<" ">> \o JoinSpace(Tail(toks))

SortTokens(s) == JoinSpace(SortedStrings(SplitTokens(s, << >>, << >>)))

\* fuzz.token_sort_ratio: ratio of the two strings with their tokens sorted
fuzz_token_sort_ratio(a, b) ==
    fuzz_ratio(SortTokens(full_process(a)), SortTokens(full_process(b)))

\* The windows of the longer string the shorter one is aligned with: the
\* prefixes shorter than the needle, every window of the needle's length,
\* and the suffixes.
Windows(long, n) ==
    { Take(long, k) : k \in 1..Max2(n - 1, 0) } \cup
    { SubSeq(long, i, Min2(i + n - 1, Len(long))) : i \in 1..Len(long) }

SetMax(S) == CHOOSE x \in S : \A y \in S : y <= x

\* fuzz.partial_ratio: the best ratio of the shorter string against a window
\* of the longer one
fuzz_partial_ratio(a, b) ==
    LET short == IF Len(a) <= Len(b) THEN a ELSE b
        long  == IF Len(a) <= Len(b) THEN b ELSE a
    IN  IF Len(long) = 0 THEN 100
        ELSE IF Len(short) = 0 THEN 0
        ELSE SetMax({ fuzz_ratio(short, w) : w \in Windows(long, Len(short)) })

(***************************************************************************)
(* find_best_match                                                         *)
(***************************************************************************)

\* plex_show = None
NoShow == [ratingKey |-> 0, title |-> << >>, lib |-> 0]

\* a guard that asks for non-empty strings only
PartialAllowedAnyLength(len_playlist, len_plex) ==
    /\ len_playlist > 0
    /\ len_plex > 0

\* length_ratio <= 2.0 with both lengths > 0 (lines 229-231); for string
\* lengths the quotient max / min is at most 2.0 exactly when max <= 2 * min
PartialAllowed(len_playlist, len_plex) ==
    /\ len_playlist > 0
    /\ len_plex > 0
    /\ Max2(len_playlist, len_plex) <= 2 * Min2(len_playlist, len_plex)

\* the three scores of one candidate and their maximum (lines 220-234)
CandidateScores(normalized_playlist, show) ==
    LET normalized_plex == normalize_title(show.title)
        ratio_score == fuzz_ratio(normalized_playlist, normalized_plex)
        token_sort_score ==
            fuzz_token_sort_ratio(normalized_playlist, normalized_plex)
        partial_score ==
            IF PartialAllowed(Len(normalized_playlist), Len(normalized_plex))
            THEN fuzz_partial_ratio(normalized_playlist, normalized_plex)
            ELSE 0
    IN  [ratio |-> ratio_score,
         score |-> Max2(Max2(ratio_score, token_sort_score), partial_score)]

\* a scan that compares the combined scores only
BetterKeyScoreOnly(score, ratio_score, best_score, best_ratio) ==
    score > best_score

\* (score, ratio_score) > (best_score, best_ratio): tuples compare
\* lexicographically (line 239)
BetterKey(score, ratio_score, best_score, best_ratio) ==
    \/ score > best_score
    \/ score = best_score /\ ratio_score > best_ratio

\* one iteration of the scan (lines 219-242)
ScanStep(best, normalized_playlist, show) ==
    LET sc == CandidateScores(normalized_playlist, show)
    IN  IF BetterKey(sc.score, sc.ratio, best.best_score, best.best_ratio)
        THEN [best_score |-> sc.score, best_ratio |-> sc.ratio,
              best_show |-> show]
        ELSE best

RECURSIVE Scan(_, _, _)
Scan(best, normalized_playlist, shows) ==
    IF shows = << >> THEN best
    ELSE Scan(ScanStep(best, normalized_playlist, shows[1]),
              normalized_playlist, Tail(shows))

min_ratio == 70

\* an acceptance test without the fixed guard-rail
AcceptsNoGuard(best, threshold) ==
    /\ best.best_score >= threshold
    /\ best.best_show # NoShow

\* the acceptance test of line 248
Accepts(best, threshold) ==
    /\ best.best_score >= threshold
    /\ best.best_ratio >= min_ratio
    /\ best.best_show # NoShow

\* the locals before the scan (lines 215-217)
NoBest == [best_score |-> 0, best_ratio |-> 0, best_show |-> NoShow]

\* the scan of the pool: the locals best_score, best_ratio, best_show when
\* the loop ends (lines 213-242)
ScanPool(playlist_title, plex_shows) ==
    Scan(NoBest,
         normalize_title(playlist_title), plex_shows)

\* the MatchResult built from the locals (lines 244-257)
MakeResult(playlist_title, best, threshold) ==
    IF Accepts(best, threshold)
    THEN [playlist_title |-> playlist_title,
          plex_show |-> best.best_show,
          plex_title |-> best.best_show.title,
          score |-> best.best_score,
          matched |-> TRUE]
    ELSE [playlist_title |-> playlist_title,
          plex_show |-> NoShow,
          plex_title |-> << >>,
          score |-> best.best_score,
          matched |-> FALSE]

find_best_match(playlist_title, plex_shows, threshold) ==
    MakeResult(playlist_title, ScanPool(playlist_title, plex_shows), threshold)

(***************************************************************************)
(* SpecMatch: find_best_match on drawn titles, pools and thresholds        *)
(***************************************************************************)

MaxPool == 2

MatchTitles ==
    { << >>, <<"!">>, <<"a", "b">>, <<"T", "h", "e", " ", "a", "b">>,
      <<"c", " ", "b">>, <<"a", "b", "c", "d">>, <<"a", "b", "!">> }

CandTitles ==
    { << >>, <<"!">>, <<"a", "b">>, <<"a", "b", ":", " ", "c">>,
      <<"b", " ", "c">>, <<"a", "b", "c", "e">>,
      <<"x", "a", "b", "y", "z">>, <<"A", "b">> }

Thresholds == {0, 60, 80, 100}

NoResult ==
    [playlist_title |-> << >>, plex_show |-> NoShow, plex_title |-> << >>,
     score |-> 0, matched |-> FALSE]

MatchInit ==
    /\ mtitle \in MatchTitles
    /\ mthreshold \in Thresholds
    /\ mshows = << >>
    /\ mphase = "build"
    /\ mbest = NoBest
    /\ mresult = NoResult

\* the library holds one more show
AddShow ==
    /\ mphase = "build"
    /\ Len(mshows) < MaxPool
    /\ \E t \in CandTitles :
         mshows' = Append(mshows, [ratingKey |-> Len(mshows) + 1,
                                   title |-> t, lib |-> 1])
    /\ UNCHANGED <<mtitle, mthreshold, mphase, mbest, mresult>>
    /\ UNCHANGED <<normVars, syncVars>>

FindBestMatch ==
    /\ mphase = "build"
    /\ mbest' = ScanPool(mtitle, mshows)
    /\ mresult' = find_best_match(mtitle, mshows, mthreshold)
    /\ mphase' = "done"
    /\ UNCHANGED <<mtitle, mthreshold, mshows>>
    /\ UNCHANGED <<normVars, syncVars>>

MatchNext == AddShow \/ FindBestMatch

(***************************************************************************)
(* The Plex server: libraries, the target collection, the target playlist  *)
(***************************************************************************)

\* config.library_names, in order
Libs == <<1, 2>>

LibSet == {Libs[i] : i \in 1..Len(Libs)}

\* library.all() of every library, concatenated (lines 447-453).  Shows 1
\* and 3 carry the same display title and different ratingKeys.
all_plex_shows ==
    << [ratingKey |-> 1, title |-> <<"a", "b">>, lib |-> 1],
       [ratingKey |-> 2, title |-> <<"c", "d">>, lib |-> 1],
       [ratingKey |-> 3, title |-> <<"a", "b">>, lib |-> 2] >>

ShowOf(k) == all_plex_shows[k]

Keys == {all_plex_shows[i].ratingKey : i \in 1..Len(all_plex_shows)}

KeysOfLib(l) == {k \in Keys : ShowOf(k).lib = l}

Range(s) == {s[i] : i \in 1..Len(s)}

RECURSIVE Concat(_)
Concat(ss) == IF ss = << >> THEN << >> ELSE ss[1] \o Concat(Tail(ss))

\* a sequence without its first occurrence of x
RECURSIVE RemoveFirst(_, _)
RemoveFirst(s, x) ==
    IF s = << >> THEN << >>
    ELSE IF s[1] = x THEN Tail(s) ELSE <<s[1]>> \o RemoveFirst(Tail(s), x)

RECURSIVE RemoveEach(_, _)
RemoveEach(s, xs) ==
    IF xs = << >> THEN s ELSE RemoveEach(RemoveFirst(s, xs[1]), Tail(xs))

\* show.addCollection(target_name): the show joins the collection of its
\* library; a member stays a member
AddCollection(c, show) ==
    IF show.ratingKey \in Range(c[show.lib]) THEN c
    ELSE [c EXCEPT ![show.lib] = Append(@, show.ratingKey)]

\* show.removeCollection(target_name)
RemoveCollection(c, show) ==
    [c EXCEPT ![show.lib] = RemoveFirst(@, show.ratingKey)]

\* plex.createPlaylist(target_name, items=...)
CreatePlaylist(shows) ==
    [exists |-> TRUE, items |-> [i \in 1..Len(shows) |-> shows[i].ratingKey]]

\* existing_playlist.addItems(items)
AddItems(pl, shows) ==
    [pl EXCEPT !.items = @ \o [i \in 1..Len(shows) |-> shows[i].ratingKey]]

\* existing_playlist.removeItems(items): one playlist entry per listed item
RemoveItems(pl, shows) ==
    [pl EXCEPT !.items =
        RemoveEach(@, [i \in 1..Len(shows) |-> shows[i].ratingKey])]

\* a read of the collections in which no failure is swallowed: every library
\* contributes its members
ReadCollectionsAll(c, libs, failLibs) ==
    Concat([i \in 1..Len(libs) |->
              [j \in 1..Len(c[libs[i]]) |-> ShowOf(c[libs[i]][j])]])

\* library.search(title=target_name, libtype="collection") and col.items()
\* for the libraries whose read did not raise (lines 293-300)
RECURSIVE ReadCollections(_, _, _)
ReadCollections(c, libs, failLibs) ==
    IF libs = << >> THEN << >>
    ELSE (IF libs[1] \in failLibs THEN << >>
          ELSE [i \in 1..Len(c[libs[1]]) |-> ShowOf(c[libs[1]][i])])
         \o ReadCollections(c, Tail(libs), failLibs)

(***************************************************************************)
(* The reconciliation delta                                                *)
(***************************************************************************)

\* {show.ratingKey for show in current_shows} (lines 302, 378)
IdsOfShows(shows) == {shows[i].ratingKey : i \in 1..Len(shows)}

\* {r.plex_show.ratingKey for r in matched_shows} (lines 303, 362)
IdsOfResults(results) ==
    {results[i].plex_show.ratingKey : i \in 1..Len(results)}

\* a delta that compares display titles instead of identities
RECURSIVE ToAddByTitle(_, _)
ToAddByTitle(results, current_ids) ==
    IF results = << >> THEN << >>
    ELSE (IF results[1].plex_title \notin
               {all_plex_shows[k].title : k \in current_ids}
          THEN <<results[1]>> ELSE << >>)
         \o ToAddByTitle(Tail(results), current_ids)

\* [r for r in matched_shows if r.plex_show.ratingKey not in current_ids]
RECURSIVE ToAdd(_, _)
ToAdd(results, current_ids) ==
    IF results = << >> THEN << >>
    ELSE (IF results[1].plex_show.ratingKey \notin current_ids
          THEN <<results[1]>> ELSE << >>)
         \o ToAdd(Tail(results), current_ids)

\* [s for s in current_shows if s.ratingKey not in desired_ids]
RECURSIVE ToRemove(_, _)
ToRemove(shows, desired_ids) ==
    IF shows = << >> THEN << >>
    ELSE (IF shows[1].ratingKey \notin desired_ids
          THEN <<shows[1]>> ELSE << >>)
         \o ToRemove(Tail(shows), desired_ids)

\* [r ... for r in matched_shows if r.plex_show.ratingKey in current_ids]
RECURSIVE AlreadySynced(_, _)
AlreadySynced(results, current_ids) ==
    IF results = << >> THEN << >>
    ELSE (IF results[1].plex_show.ratingKey \in current_ids
          THEN <<results[1]>> ELSE << >>)
         \o AlreadySynced(Tail(results), current_ids)

PlexTitles(results) == [i \in 1..Len(results) |-> results[i].plex_title]

ShowTitles(shows) == [i \in 1..Len(shows) |-> shows[i].title]

PlexShows(results) == [i \in 1..Len(results) |-> results[i].plex_show]

\* a gate that ignores the dry-run flag
ShouldMutateAlways(dry) == TRUE

\* "if not dry_run:" before every mutating call (311, 323, 371, 387, 399)
ShouldMutate(dry) == ~dry

(***************************************************************************)
(* Spec: the program run (main, sync, sync_as_collection, sync_as_playlist)*)
(***************************************************************************)

MaxTitles == 2

fuzzy_threshold == 80

\* the titles a smart playlist may hold: "ab" and "The ab" match show 1,
\* "cd" matches show 2, "zz" matches nothing
TitlePool ==
    { <<"a", "b">>, <<"T", "h", "e", " ", "a", "b">>, <<"c", "d">>,
      <<"z", "z">> }

SeqsUpTo(S, n) == UNION {[1..k -> S] : k \in 0..n}

DupFreeSeqs(S) ==
    {s \in SeqsUpTo(S, Cardinality(S)) :
        \A i, j \in 1..Len(s) : i # j => s[i] # s[j]}

AscendingSeqs(S) ==
    {s \in SeqsUpTo(S, Cardinality(S)) :
        \A i, j \in 1..Len(s) : i < j => s[i] < s[j]}

ModeChoices ==
    { <<"collection">>, <<"playlist">>, <<"collection", "playlist">> }

EmptyByMode == [collection |-> << >>, playlist |-> << >>]

EmptyStats ==
    [added |-> EmptyByMode, removed |-> EmptyByMode,
     already_synced |-> EmptyByMode, not_found |-> << >>]

NoReport ==
    [kind |-> "none", added |-> EmptyByMode, removed |-> EmptyByMode,
     already_synced |-> EmptyByMode, not_found |-> << >>]

NoCall == [op |-> "none", keys |-> << >>]

Call(op, shows) == [op |-> op, keys |-> [i \in 1..Len(shows) |-> shows[i].ratingKey]]

SyncInit ==
    /\ playlist_titles \in SeqsUpTo(TitlePool, MaxTitles)
    /\ coll \in {c \in [LibSet -> DupFreeSeqs(Keys)] :
                    \A l \in LibSet : Range(c[l]) \subseteq KeysOfLib(l)}
    /\ plist \in {[exists |-> FALSE, items |-> << >>]} \cup
                 {[exists |-> TRUE, items |-> s] : s \in AscendingSeqs(Keys)}
    /\ pc = "start"
    /\ dry_run = FALSE
    /\ sync_modes = <<"collection">>
    /\ ti = 1
    /\ matched_shows = << >>
    /\ stats = EmptyStats
    /\ mi = 1
    /\ current_shows = << >>
    /\ to_add = << >>
    /\ to_remove = << >>
    /\ added = << >>
    /\ removed = << >>
    /\ already = << >>
    /\ idx = 1
    /\ report = NoReport
    /\ remote_before = [coll |-> coll, plist |-> plist]
    /\ read_failed = {}
    /\ created = FALSE
    /\ applied = << >>
    /\ failed = NoCall
    /\ prev = [collection |-> "none", playlist |-> "none"]

ResetPass ==
    /\ current_shows' = << >>
    /\ to_add' = << >>
    /\ to_remove' = << >>
    /\ added' = << >>
    /\ removed' = << >>
    /\ already' = << >>
    /\ idx' = 1
    /\ read_failed' = {}
    /\ created' = FALSE
    /\ applied' = << >>

Mode == sync_modes[mi]

\* main, lines 598-625, and sync up to the matching loop, lines 420-463:
\* the program is started (again) with some configuration
StartRun ==
    /\ pc \in {"start", "exit0", "exit1"}
    /\ dry_run' \in BOOLEAN
    /\ sync_modes' \in ModeChoices
    /\ pc' = "match"
    /\ ti' = 1
    /\ matched_shows' = << >>
    /\ stats' = EmptyStats
    /\ mi' = 1
    /\ report' = NoReport
    /\ failed' = NoCall
    /\ ResetPass
    /\ remote_before' = [coll |-> coll, plist |-> plist]
    /\ UNCHANGED <<playlist_titles, remoteVars, prev>>
    /\ UNCHANGED <<normVars, matchVars>>

\* one iteration of the matching loop (lines 465-484)
MatchTitle ==
    /\ pc = "match"
    /\ ti <= Len(playlist_titles)
    /\ LET title == SortedStrings(playlist_titles)[ti]
           result == find_best_match(title, all_plex_shows, fuzzy_threshold)
       IN  IF result.matched
           THEN /\ matched_shows' = Append(matched_shows, result)
                /\ stats' = stats
           ELSE /\ stats' = [stats EXCEPT !.not_found = Append(@, title)]
                /\ matched_shows' = matched_shows
    /\ ti' = ti + 1
    /\ UNCHANGED <<playlist_titles, pc, dry_run, sync_modes, mi, report>>
    /\ UNCHANGED <<remoteVars, passVars, histVars, normVars, matchVars>>

\* the matching loop ends (lines 486-490)
MatchDone ==
    /\ pc = "match"
    /\ ti > Len(playlist_titles)
    /\ pc' = "mode"
    /\ UNCHANGED <<playlist_titles, dry_run, sync_modes, ti, matched_shows,
                   stats, mi, report>>
    /\ UNCHANGED <<remoteVars, passVars, histVars, normVars, matchVars>>

\* the loop over config.sync_modes enters a pass (lines 490-503)
NextMode ==
    /\ pc = "mode"
    /\ mi <= Len(sync_modes)
    /\ pc' = IF Mode = "collection" THEN "col_read" ELSE "pl_find"
    /\ ResetPass
    /\ remote_before' = [coll |-> coll, plist |-> plist]
    /\ UNCHANGED <<playlist_titles, dry_run, sync_modes, ti, matched_shows,
                   stats, mi, report, failed, prev>>
    /\ UNCHANGED <<remoteVars, normVars, matchVars>>

\* what raising does: the exception leaves sync for main's handler
Raise(call) ==
    /\ pc' = "error"
    /\ failed' = call

\* sync_as_collection, lines 289-306: the snapshot is read library by
\* library, a read that raises is swallowed, and to_add is computed
ColRead ==
    /\ pc = "col_read"
    /\ \E failLibs \in SUBSET LibSet :
         /\ read_failed' = failLibs
         /\ current_shows' = ReadCollections(coll, Libs, failLibs)
    /\ to_add' = ToAdd(matched_shows, IdsOfShows(current_shows'))
    /\ idx' = 1
    /\ pc' = "col_add"
    /\ UNCHANGED <<playlist_titles, dry_run, sync_modes, ti, matched_shows,
                   stats, mi, report>>
    /\ UNCHANGED <<to_remove, added, removed, already>>
    /\ UNCHANGED <<remote_before, created, applied, failed, prev>>
    /\ UNCHANGED <<remoteVars, normVars, matchVars>>

\* one iteration of the add loop (lines 309-313)
ColAdd ==
    /\ pc = "col_add"
    /\ idx <= Len(to_add)
    /\ LET result == to_add[idx]
       IN  \/ /\ IF ShouldMutate(dry_run)
                 THEN /\ coll' = AddCollection(coll, result.plex_show)
                      /\ applied' =
                           Append(applied, Call("add", <<result.plex_show>>))
                 ELSE UNCHANGED <<coll, applied>>
              /\ added' = Append(added, result.plex_title)
              /\ idx' = idx + 1
              /\ UNCHANGED <<pc, failed>>
           \/ /\ ShouldMutate(dry_run)
              /\ Raise(Call("add", <<result.plex_show>>))
              /\ UNCHANGED <<coll, applied, added, idx>>
    /\ UNCHANGED <<playlist_titles, dry_run, sync_modes, ti, matched_shows,
                   stats, mi, report>>
    /\ UNCHANGED <<current_shows, to_add, to_remove, removed, already>>
    /\ UNCHANGED <<remote_before, read_failed, created, prev>>
    /\ UNCHANGED <<plist, normVars, matchVars>>

\* the add loop ends and to_remove is computed (lines 314-318)
ColBeginRemove ==
    /\ pc = "col_add"
    /\ idx > Len(to_add)
    /\ to_remove' = ToRemove(current_shows, IdsOfResults(matched_shows))
    /\ idx' = 1
    /\ pc' = "col_remove"
    /\ UNCHANGED <<playlist_titles, dry_run, sync_modes, ti, matched_shows,
                   stats, mi, report>>
    /\ UNCHANGED <<current_shows, to_add, added, removed, already>>
    /\ UNCHANGED <<remoteVars, histVars, normVars, matchVars>>

\* one iteration of the remove loop (lines 321-325)
ColRemove ==
    /\ pc = "col_remove"
    /\ idx <= Len(to_remove)
    /\ LET show == to_remove[idx]
       IN  \/ /\ IF ShouldMutate(dry_run)
                 THEN /\ coll' = RemoveCollection(coll, show)
                      /\ applied' = Append(applied, Call("remove", <<show>>))
                 ELSE UNCHANGED <<coll, applied>>
              /\ removed' = Append(removed, show.title)
              /\ idx' = idx + 1
              /\ UNCHANGED <<pc, failed>>
           \/ /\ ShouldMutate(dry_run)
              /\ Raise(Call("remove", <<show>>))
              /\ UNCHANGED <<coll, applied, removed, idx>>
    /\ UNCHANGED <<playlist_titles, dry_run, sync_modes, ti, matched_shows,
                   stats, mi, report>>
    /\ UNCHANGED <<current_shows, to_add, to_remove, added, already>>
    /\ UNCHANGED <<remote_before, read_failed, created, prev>>
    /\ UNCHANGED <<plist, normVars, matchVars>>

\* the remove loop ends; already is computed and the lists are returned
\* (lines 326-335)
ColFinish ==
    /\ pc = "col_remove"
    /\ idx > Len(to_remove)
    /\ already' = AlreadySynced(matched_shows, IdsOfShows(current_shows))
    /\ pc' = "mode_done"
    /\ UNCHANGED <<playlist_titles, dry_run, sync_modes, ti, matched_shows,
                   stats, mi, report>>
    /\ UNCHANGED <<current_shows, to_add, to_remove, added, removed, idx>>
    /\ UNCHANGED <<remoteVars, histVars, normVars, matchVars>>

\* sync_as_playlist, lines 352-362 and 375-378: the playlist is looked up;
\* NotFound means there is none, any other failure of the read raises
PlFind ==
    /\ pc = "pl_find"
    /\ \/ /\ plist.exists
          /\ current_shows' =
               [i \in 1..Len(plist.items) |-> ShowOf(plist.items[i])]
          /\ created' = FALSE
          /\ pc' = "pl_add"
          /\ UNCHANGED failed
       \/ /\ ~plist.exists
          /\ created' = TRUE
          /\ pc' = "pl_create"
          /\ UNCHANGED <<current_shows, failed>>
       \/ /\ Raise([op |-> "read", keys |-> << >>])
          /\ UNCHANGED <<current_shows, created>>
    /\ UNCHANGED <<playlist_titles, dry_run, sync_modes, ti, matched_shows,
                   stats, mi, report>>
    /\ UNCHANGED <<to_add, to_remove, added, removed, already, idx>>
    /\ UNCHANGED <<remote_before, read_failed, applied, prev>>
    /\ UNCHANGED <<remoteVars, normVars, matchVars>>

\* no playlist exists: every matched show is listed as added and the
\* playlist is created with them (lines 364-374, 410)
PlCreate ==
    /\ pc = "pl_create"
    /\ LET desired_shows == PlexShows(matched_shows)
       IN  \/ /\ added' = PlexTitles(matched_shows)
              /\ IF desired_shows # << >> /\ ShouldMutate(dry_run)
                 THEN /\ plist' = CreatePlaylist(desired_shows)
                      /\ applied' =
                           Append(applied, Call("create", desired_shows))
                 ELSE UNCHANGED <<plist, applied>>
              /\ pc' = "mode_done"
              /\ UNCHANGED failed
           \/ /\ desired_shows # << >>
              /\ ShouldMutate(dry_run)
              /\ Raise(Call("create", desired_shows))
              /\ UNCHANGED <<plist, applied, added>>
    /\ UNCHANGED <<playlist_titles, dry_run, sync_modes, ti, matched_shows,
                   stats, mi, report>>
    /\ UNCHANGED <<current_shows, to_add, to_remove, removed, already, idx>>
    /\ UNCHANGED <<remote_before, read_failed, created, prev>>
    /\ UNCHANGED <<coll, normVars, matchVars>>

\* the playlist exists: to_add is computed, listed and added in one call
\* (lines 377-390)
PlAdd ==
    /\ pc = "pl_add"
    /\ LET adds == ToAdd(matched_shows, IdsOfShows(current_shows))
       IN  \/ /\ to_add' = adds
              /\ added' = PlexTitles(adds)
              /\ IF adds # << >> /\ ShouldMutate(dry_run)
                 THEN /\ plist' = AddItems(plist, PlexShows(adds))
                      /\ applied' =
                           Append(applied, Call("addItems", PlexShows(adds)))
                 ELSE UNCHANGED <<plist, applied>>
              /\ pc' = "pl_remove"
              /\ UNCHANGED failed
           \/ /\ adds # << >>
              /\ ShouldMutate(dry_run)
              /\ Raise(Call("addItems", PlexShows(adds)))
              /\ to_add' = adds
              /\ UNCHANGED <<plist, applied, added>>
    /\ UNCHANGED <<playlist_titles, dry_run, sync_modes, ti, matched_shows,
                   stats, mi, report>>
    /\ UNCHANGED <<current_shows, to_remove, removed, already, idx>>
    /\ UNCHANGED <<remote_before, read_failed, created, prev>>
    /\ UNCHANGED <<coll, normVars, matchVars>>

\* to_remove is computed, listed and removed in one call; already is
\* computed and the lists are returned (lines 392-410)
PlRemove ==
    /\ pc = "pl_remove"
    /\ LET rems == ToRemove(current_shows, IdsOfResults(matched_shows))
       IN  \/ /\ to_remove' = rems
              /\ removed' = ShowTitles(rems)
              /\ IF rems # << >> /\ ShouldMutate(dry_run)
                 THEN /\ plist' = RemoveItems(plist, rems)
                      /\ applied' = Append(applied, Call("removeItems", rems))
                 ELSE UNCHANGED <<plist, applied>>
              /\ already' =
                   AlreadySynced(matched_shows, IdsOfShows(current_shows))
              /\ pc' = "mode_done"
              /\ UNCHANGED failed
           \/ /\ rems # << >>
              /\ ShouldMutate(dry_run)
              /\ Raise(Call("removeItems", rems))
              /\ to_remove' = rems
              /\ UNCHANGED <<plist, applied, removed, already>>
    /\ UNCHANGED <<playlist_titles, dry_run, sync_modes, ti, matched_shows,
                   stats, mi, report>>
    /\ UNCHANGED <<current_shows, to_add, added, idx>>
    /\ UNCHANGED <<remote_before, read_failed, created, prev>>
    /\ UNCHANGED <<coll, normVars, matchVars>>

\* sync stores the lists the pass returned (lines 505-510)
StoreStats ==
    /\ pc = "mode_done"
    /\ stats' = [stats EXCEPT !.added[Mode] = added,
                              !.removed[Mode] = removed,
                              !.already_synced[Mode] = PlexTitles(already)]
    /\ prev' = [prev EXCEPT ![Mode] =
                  IF dry_run THEN @
                  ELSE IF read_failed = {} THEN "clean" ELSE "readfail"]
    /\ mi' = mi + 1
    /\ pc' = "mode"
    /\ ResetPass
    /\ UNCHANGED <<playlist_titles, dry_run, sync_modes, ti, matched_shows,
                   report>>
    /\ UNCHANGED <<remote_before, failed>>
    /\ UNCHANGED <<remoteVars, normVars, matchVars>>

\* sync returns and main prints the summary (lines 512, 626, 517-554)
PrintSummary ==
    /\ pc = "mode"
    /\ mi > Len(sync_modes)
    /\ report' = [kind |-> "summary", added |-> stats.added,
                  removed |-> stats.removed,
                  already_synced |-> stats.already_synced,
                  not_found |-> stats.not_found]
    /\ pc' = "exit0"
    /\ UNCHANGED <<playlist_titles, dry_run, sync_modes, ti, matched_shows,
                   stats, mi>>
    /\ UNCHANGED <<remoteVars, passVars, histVars, normVars, matchVars>>

\* main's handler: the error is logged and the program exits with status 1;
\* print_summary is not reached (lines 627-633)
ErrorExit ==
    /\ pc = "error"
    /\ report' = [NoReport EXCEPT !.kind = "error"]
    /\ pc' = "exit1"
    /\ prev' = [prev EXCEPT ![Mode] = IF failed.op = "read" THEN @ ELSE "none"]
    /\ UNCHANGED <<playlist_titles, dry_run, sync_modes, ti, matched_shows,
                   stats, mi>>
    /\ UNCHANGED <<remote_before, read_failed, created, applied, failed>>
    /\ UNCHANGED <<remoteVars, passVars, normVars, matchVars>>

SyncNext ==
    \/ StartRun
    \/ MatchTitle
    \/ MatchDone
    \/ NextMode
    \/ ColRead
    \/ ColAdd
    \/ ColBeginRemove
    \/ ColRemove
    \/ ColFinish
    \/ PlFind
    \/ PlCreate
    \/ PlAdd
    \/ PlRemove
    \/ StoreStats
    \/ PrintSummary
    \/ ErrorExit

(***************************************************************************)
(* The specifications                                                      *)
(***************************************************************************)

vars == <<normVars, matchVars, syncVars>>

NormIdle ==
    /\ ntitle = << >>
    /\ npieces = 0
    /\ nphase = "idle"
    /\ nonce = << >>
    /\ ntwice = << >>

MatchIdle ==
    /\ mtitle = << >>
    /\ mthreshold = 0
    /\ mshows = << >>
    /\ mphase = "idle"
    /\ mbest = NoBest
    /\ mresult = NoResult

SyncIdle ==
    /\ playlist_titles = << >>
    /\ coll = [l \in LibSet |-> << >>]
    /\ plist = [exists |-> FALSE, items |-> << >>]
    /\ pc = "idle"
    /\ dry_run = FALSE
    /\ sync_modes = <<"collection">>
    /\ ti = 1
    /\ matched_shows = << >>
    /\ stats = EmptyStats
    /\ mi = 1
    /\ current_shows = << >>
    /\ to_add = << >>
    /\ to_remove = << >>
    /\ added = << >>
    /\ removed = << >>
    /\ already = << >>
    /\ idx = 1
    /\ report = NoReport
    /\ remote_before = [coll |-> coll, plist |-> plist]
    /\ read_failed = {}
    /\ created = FALSE
    /\ applied = << >>
    /\ failed = NoCall
    /\ prev = [collection |-> "none", playlist |-> "none"]

NormSpecInit == NormInit /\ MatchIdle /\ SyncIdle

MatchSpecInit == MatchInit /\ NormIdle /\ SyncIdle

SyncSpecInit == SyncInit /\ NormIdle /\ MatchIdle

SpecNorm == NormSpecInit /\ [][NormNext]_vars

SpecMatch == MatchSpecInit /\ [][MatchNext]_vars

Spec == SyncSpecInit /\ [][SyncNext]_vars

(***************************************************************************)
(* Properties of normalize_title (SpecNorm)                                *)
(***************************************************************************)

\* C8: normalize_title is idempotent: normalising an already normalised
\* title changes nothing.
C8_Idempotent == nphase = "twice" => ntwice = nonce

(***************************************************************************)
(* Properties of find_best_match (SpecMatch)                               *)
(***************************************************************************)

\* the key (combined score, exact-order similarity) of every candidate
PoolKeys ==
    [i \in 1..Len(mshows) |->
        LET sc == CandidateScores(normalize_title(mtitle), mshows[i])
        IN  <<sc.score, sc.ratio>>]

KeyLeq(k1, k2) == k1[1] < k2[1] \/ (k1[1] = k2[1] /\ k1[2] <= k2[2])

\* the candidates whose key is lexicographically maximal over the pool
MaxKeyIdx(keys) ==
    {i \in DOMAIN keys : \A j \in DOMAIN keys : KeyLeq(keys[j], keys[i])}

\* the first of them in pool order
FirstMaxIdx(keys) ==
    CHOOSE i \in MaxKeyIdx(keys) : \A j \in MaxKeyIdx(keys) : i <= j

\* C6: the result is matched with a best candidate exactly when the best
\* combined score reaches the threshold and that candidate's exact-order
\* similarity is at least 70; otherwise it is unmatched, carries the best
\* combined score and no candidate.
C6_Acceptance ==
    mphase = "done" =>
        LET keys == PoolKeys
            top == IF mshows = << >> THEN <<0, 0>> ELSE keys[FirstMaxIdx(keys)]
        IN  IF mshows # << >> /\ top[1] >= mthreshold /\ top[2] >= 70
            THEN /\ mresult.matched
                 /\ \E i \in MaxKeyIdx(keys) : mresult.plex_show = mshows[i]
                 /\ mresult.score = top[1]
            ELSE /\ ~mresult.matched
                 /\ mresult.plex_show = NoShow
                 /\ mresult.score = top[1]

\* C6 witness: at threshold 0 a best candidate that scores 100 is refused
\* because its exact-order similarity is below 70.
C6_Witness ==
    /\ mphase = "done"
    /\ mthreshold = 0
    /\ mshows # << >>
    /\ mresult.score = 100
    /\ ~mresult.matched

\* C7 as stated: whenever the pool is not empty, the candidate tracked by
\* the scan is the first one in pool order whose key is maximal.
C7_TracksFirstMax ==
    (mphase = "done" /\ mshows # << >>) =>
        mbest.best_show = mshows[FirstMaxIdx(PoolKeys)]

\* C7 as amended: when some candidate's key is greater than (0, 0) the scan
\* tracks the first candidate in pool order whose key is maximal, with that
\* key; when no key is greater than (0, 0) no candidate is tracked.
C7_TracksFirstMaxAboveZero ==
    mphase = "done" =>
        LET keys == PoolKeys
        IN  IF \E i \in DOMAIN keys : keys[i] # <<0, 0>>
            THEN /\ mbest.best_show = mshows[FirstMaxIdx(keys)]
                 /\ <<mbest.best_score, mbest.best_ratio>>
                      = keys[FirstMaxIdx(keys)]
            ELSE mbest = NoBest

\* C7 witness: two candidates tie on the combined score, the later one has
\* the higher exact-order similarity and is the one tracked.
C7_Witness ==
    /\ mphase = "done"
    /\ Len(mshows) = 2
    /\ LET keys == PoolKeys
       IN  /\ keys[1][1] = keys[2][1]
           /\ keys[1][2] < keys[2][2]
    /\ mbest.best_show = mshows[2]

\* C9: an empty pool, or an empty source title, yields an unmatched result
\* with score 0 and no candidate, at every threshold.
C9_DegenerateUnmatched ==
    (mphase = "done" /\ (mshows = << >> \/ mtitle = << >>)) =>
        /\ ~mresult.matched
        /\ mresult.score = 0
        /\ mresult.plex_show = NoShow

\* the lengths are both non-zero and the longer is at most twice the shorter
WithinTwice(a, b) ==
    /\ Len(a) > 0
    /\ Len(b) > 0
    /\ (IF Len(a) >= Len(b) THEN Len(a) <= 2 * Len(b)
                             ELSE Len(b) <= 2 * Len(a))

\* the combined score of two normalized titles as C11 states it
GuardedScore(a, b) ==
    LET base == Max2(fuzz_ratio(a, b), fuzz_token_sort_ratio(a, b))
    IN  IF WithinTwice(a, b) THEN Max2(base, fuzz_partial_ratio(a, b))
        ELSE base

\* C11: the substring-tolerant score of a candidate counts only when both
\* normalized lengths are non-zero and the longer is at most twice the
\* shorter, and is 0 otherwise, so the best score is the greatest of the
\* scores so combined; and no candidate more than twice as long as the
\* title, or less than half as long, is ever accepted.
C11_SubstringGuard ==
    mphase = "done" =>
        LET a  == normalize_title(mtitle)
            bs == [i \in 1..Len(mshows) |-> normalize_title(mshows[i].title)]
        IN  /\ mresult.score =
                  SetMax({0} \cup {GuardedScore(a, bs[i]) : i \in DOMAIN bs})
            /\ mbest.best_score = mresult.score
            /\ mresult.matched =>
                  LET b == normalize_title(mresult.plex_show.title)
                  IN  /\ Len(a) <= 2 * Len(b)
                      /\ Len(b) <= 2 * Len(a)

\* C11 witness: a candidate more than twice as long as the title holds the
\* title as a substring; its substring score of 100 is left out, the best
\* score is below 100 and the title is unmatched at threshold 0.
C11_Witness ==
    /\ mphase = "done"
    /\ mthreshold = 0
    /\ Len(mshows) = 1
    /\ LET a == normalize_title(mtitle)
           b == normalize_title(mshows[1].title)
       IN  /\ Len(a) > 0
           /\ Len(b) > 2 * Len(a)
           /\ fuzz_partial_ratio(a, b) = 100
    /\ mresult.score < 100
    /\ ~mresult.matched

(***************************************************************************)
(* Properties of the sync passes (Spec)                                    *)
(***************************************************************************)

ToAddKnown ==
    \/ pc \in {"col_add", "col_remove", "pl_remove"}
    \/ pc = "mode_done" /\ ~created

ToRemoveKnown ==
    \/ pc = "col_remove"
    \/ pc = "mode_done" /\ ~created

\* C1: after a non-dry-run pass of a mode whose mutation calls all
\* succeeded, the next pass of that mode, with its snapshot freshly read,
\* computes an empty to_add and to_remove and returns no added or removed.
C1_SecondPassEmpty ==
    (/\ pc \in {"col_add", "col_remove", "pl_create", "pl_remove", "mode_done"}
     /\ prev[Mode] \in {"clean", "readfail"}
     /\ read_failed = {}) =>
        /\ to_add = << >>
        /\ to_remove = << >>
        /\ added = << >>
        /\ removed = << >>
        /\ (pc = "pl_create" => matched_shows = << >>)

\* The same statement when the earlier pass also read every library.
IdempotentAfterCleanPass ==
    (/\ pc \in {"col_add", "col_remove", "pl_create", "pl_remove", "mode_done"}
     /\ prev[Mode] = "clean"
     /\ read_failed = {}) =>
        /\ to_add = << >>
        /\ to_remove = << >>
        /\ added = << >>
        /\ removed = << >>
        /\ (pc = "pl_create" => matched_shows = << >>)

NoDuplicates(s) == \A i, j \in 1..Len(s) : i # j => s[i] # s[j]

ResultKeys(results) ==
    [i \in 1..Len(results) |-> results[i].plex_show.ratingKey]

\* C2: the identities of to_add and already_synced together are the
\* desired identities, each listed once.
C2_Complete ==
    (pc = "mode_done" /\ ~created) =>
        LET ids == ResultKeys(to_add) \o ResultKeys(already)
        IN  /\ Range(ids) = IdsOfResults(matched_shows)
            /\ NoDuplicates(ids)

\* the lists a pass returns, from the matched list and the snapshot alone
ExpectedAdded ==
    IF created THEN PlexTitles(matched_shows)
    ELSE PlexTitles(SelectSeq(matched_shows,
            LAMBDA r : r.plex_show.ratingKey \notin IdsOfShows(current_shows)))

ExpectedRemoved ==
    ShowTitles(SelectSeq(current_shows,
        LAMBDA s : s.ratingKey \notin IdsOfResults(matched_shows)))

ExpectedAlready ==
    PlexTitles(SelectSeq(matched_shows,
        LAMBDA r : r.plex_show.ratingKey \in IdsOfShows(current_shows)))

\* C3: in a dry run no mutating call is made and the collection and the
\* playlist stay as they were; the lists a pass returns are those given by
\* the matched list and the snapshot, dry run or not.
C3_DryRun ==
    /\ (dry_run /\ pc \notin {"start", "idle"}) =>
           /\ coll = remote_before.coll
           /\ plist = remote_before.plist
           /\ applied = << >>
    /\ pc = "mode_done" =>
           /\ added = ExpectedAdded
           /\ removed = ExpectedRemoved
           /\ PlexTitles(already) = ExpectedAlready

\* C3 witness: a dry-run pass returned both additions and removals.
C3_Witness ==
    /\ dry_run
    /\ pc = "mode_done"
    /\ added # << >>
    /\ removed # << >>

\* the titles of the shows named by the calls of the given kinds that
\* succeeded in this pass, in call order
AppliedTitlesOf(ops) ==
    Concat([i \in 1..Len(applied) |->
              IF applied[i].op \in ops
              THEN [j \in 1..Len(applied[i].keys) |->
                      ShowOf(applied[i].keys[j]).title]
              ELSE << >>])

\* C4: when a mutation call fails, the run still reports the items whose
\* mutation had been applied before the failure.
C4_FailureReported ==
    (pc = "exit1" /\ failed.op \notin {"none", "read"}) =>
        /\ report.added[Mode] = AppliedTitlesOf({"add", "addItems", "create"})
        /\ report.removed[Mode] = AppliedTitlesOf({"remove", "removeItems"})

\* the titles find_best_match leaves unmatched, in the order of the loop
UnmatchedTitles ==
    SelectSeq(SortedStrings(playlist_titles),
        LAMBDA t : ~find_best_match(t, all_plex_shows, fuzzy_threshold).matched)

\* C5: every run ends with a report that lists every unmatched title,
\* whatever happened in the passes.
C5_NotFoundReported ==
    pc \in {"exit0", "exit1"} => report.not_found = UnmatchedTitles

Occurrences(s, x) == Cardinality({i \in 1..Len(s) : s[i] = x})

\* The part of C5 about the matching loop: once the loop has ended every
\* title has one MatchResult, in matched_shows or counted in not_found.
EveryTitleClassified ==
    pc \notin {"start", "idle", "match"} =>
        \A t \in Range(playlist_titles) :
            /\ Occurrences(playlist_titles, t) =
                  Occurrences([i \in 1..Len(matched_shows) |->
                                 matched_shows[i].playlist_title], t)
                  + Occurrences(stats.not_found, t)
            /\ (t \in Range(stats.not_found)) #
                  (\E i \in 1..Len(matched_shows) :
                      matched_shows[i].playlist_title = t)

\* sub is full restricted to the positions in I, in order
IsRestriction(sub, full, I) ==
    /\ Len(sub) = Cardinality(I)
    /\ \A i \in I : sub[Cardinality({j \in I : j <= i})] = full[i]

\* C10: to_add is the matched list restricted to the identities absent from
\* the snapshot, to_remove is the snapshot restricted to the identities not
\* desired, both in order; a live identity is removed or remains.
C10_DeltaByIdentity ==
    /\ ToAddKnown =>
          IsRestriction(to_add, matched_shows,
              {i \in 1..Len(matched_shows) :
                  \A j \in 1..Len(current_shows) :
                      current_shows[j].ratingKey
                          # matched_shows[i].plex_show.ratingKey})
    /\ ToRemoveKnown =>
          /\ IsRestriction(to_remove, current_shows,
                {i \in 1..Len(current_shows) :
                    \A j \in 1..Len(matched_shows) :
                        matched_shows[j].plex_show.ratingKey
                            # current_shows[i].ratingKey})
          /\ \A k \in IdsOfShows(current_shows) :
                (k \in IdsOfShows(to_remove)) # (k \in IdsOfResults(matched_shows))
    /\ (pc = "mode_done" /\ Mode = "collection" /\ ~dry_run) =>
          \A k \in IdsOfShows(current_shows) :
              (k \in IdsOfShows(to_remove)) # (k \in Range(coll[ShowOf(k).lib]))

\* C10 witness: a collection pass adds one show and removes another that
\* carries the same display title.
C10_Witness ==
    /\ pc = "mode_done"
    /\ Mode = "collection"
    /\ \E i \in 1..Len(to_add) : \E j \in 1..Len(to_remove) :
          to_add[i].plex_title = to_remove[j].title

\* the pass of the collection mode has read its snapshot
InCollectionPass ==
    /\ pc \in {"col_add", "col_remove", "mode_done"}
    /\ Mode = "collection"

\* the members the collections of all libraries had when the pass began
MembersBefore ==
    Concat([i \in 1..Len(Libs) |->
              [j \in 1..Len(remote_before.coll[Libs[i]]) |->
                  ShowOf(remote_before.coll[Libs[i]][j])]])

\* C12: in collection mode a library whose read raised is left out of the
\* snapshot and nothing else is; every matched candidate absent from the
\* snapshot is in to_add, and has had addCollection called unless the run
\* is a dry run; no member of an unread library is in to_remove, and those
\* members are still in the collection when the pass returns; the pass
\* reaches its return with no failure recorded, and a failure that ends a
\* collection pass is never one of the read.
C12_ReadFailureSwallowed ==
    /\ InCollectionPass =>
          /\ IsRestriction(current_shows, MembersBefore,
                {i \in 1..Len(MembersBefore) :
                    MembersBefore[i].lib \notin read_failed})
          /\ \A i \in 1..Len(matched_shows) :
                matched_shows[i].plex_show.ratingKey
                    \notin IdsOfShows(current_shows)
                  => \E j \in 1..Len(to_add) : to_add[j] = matched_shows[i]
          /\ failed = NoCall
    /\ (InCollectionPass /\ pc \in {"col_remove", "mode_done"}) =>
          /\ \A i \in 1..Len(to_add) :
                IF dry_run THEN applied = << >>
                ELSE \E j \in 1..Len(applied) :
                        /\ applied[j].op = "add"
                        /\ applied[j].keys = <<to_add[i].plex_show.ratingKey>>
          /\ \A i \in 1..Len(to_remove) : to_remove[i].lib \notin read_failed
    /\ (InCollectionPass /\ pc = "mode_done") =>
          /\ \A l \in read_failed :
                Range(remote_before.coll[l]) \subseteq Range(coll[l])
          /\ Len(added) = Len(to_add)
          /\ Len(removed) = Len(to_remove)
    /\ (pc \in {"error", "exit1"} /\ Mode = "collection") =>
          failed.op \in {"add", "remove"}

\* C12 witness: a pass that is not a dry run could not read a library; it
\* calls addCollection for a matched show that is a member already, leaves
\* an undesired member of that library in the collection, and returns.
C12_Witness ==
    /\ InCollectionPass
    /\ pc = "mode_done"
    /\ ~dry_run
    /\ failed = NoCall
    /\ \E l \in read_failed :
          /\ \E i \in 1..Len(to_add) :
                /\ to_add[i].plex_show.ratingKey
                      \in Range(remote_before.coll[l])
                /\ \E j \in 1..Len(applied) :
                      applied[j] = Call("add", <<to_add[i].plex_show>>)
          /\ \E k \in Range(coll[l]) : k \notin IdsOfResults(matched_shows)

====
